---- MODULE Spec2Model ----
(***************************************************************************)
(* Pull-based batch executor interface of the coprocessor DAG layer        *)
(* (src/coprocessor/dag/batch/interface.rs): the BatchExecutor trait, its  *)
(* forwarding implementation for Box<T>, its implementation for            *)
(* WithSummaryCollector<C, T>, and the BatchExecuteResult structure.       *)
(*                                                                         *)
(* An executor tree is a nested record.  Every trait method is an operator *)
(* that takes the executor (and the caller's mutable arguments) and        *)
(* returns the executor after the call together with what the call         *)
(* returns, because Rust's `&mut self` calls are modelled functionally.    *)
(* `env` is the environment threaded through a call: the monotonic clock   *)
(* read by the timers and the log of the events of the call in progress.   *)
(***************************************************************************)
EXTENDS Integers, Sequences, FiniteSets, TLC

\* ------------------------------------------------------------- bounds
MaxDepth == 2       \* layers (Box handles, decorators) above the leaf
MaxPhys == 2        \* largest physical row count of one result
MaxPulls == 2       \* next_batch calls of the driver in one execution
MaxCollects == 2    \* collect_statistics calls of the driver

\* ------------------------------------------------------------- values
\* Option<T>: None is the empty sequence, Some(x) the singleton.
None == << >>
Some(x) == << x >>

\* is_drained: Result<bool, Error>
Continue == "Ok(false)"
DrainedOk == "Ok(true)"
DrainedErr == "Err"
Signals == {Continue, DrainedOk, DrainedErr}

\* Schemas: ordered field types.
Schemas == { << "Int" >>, << "Int", "Bytes" >> }

\* scan_rows hints the driver passes.
Hints == {0, 1}

\* The last k of p physical rows, in descending order.
LastRows(p, k) == [ i \in 1..k |-> p - i ]

\* EvalWarnings of one invocation: a batch that discards a physical row
\* raises a warning.
WarningsOf(p, k) == IF k < p THEN << "Truncated" >> ELSE << >>

\* BatchExecuteResult
BatchExecuteResult(cols, rows, warns, drained) ==
    [ physical_columns |-> cols,
      logical_rows |-> rows,
      warnings |-> warns,
      is_drained |-> drained ]

\* LazyBatchColumnVec: opaque but for its row count.
LazyBatchColumnVec(n) == [ rows_len |-> n ]

\* The results a leaf executor may produce on one call.
LeafResults ==
    UNION { { BatchExecuteResult(LazyBatchColumnVec(p), LastRows(p, k),
                                 WarningsOf(p, k), d) :
                k \in {0, 1, p} \cap 0..p, d \in Signals } :
            p \in {0, MaxPhys} }

\* ------------------------------------------------------------- environment
Event(ev, id, n, t, sig) == [ ev |-> ev, id |-> id, n |-> n, t |-> t, sig |-> sig ]
Emit(env, e) == [ env EXCEPT !.log = Append(@, e) ]
Tick(env) == [ env EXCEPT !.clock = @ + 1 ]
Env(clk) == [ clock |-> clk, log |-> << >> ]

\* ------------------------------------------------------------- ExecSummary
ExecSummaryDefault ==
    [ num_produced_rows |-> 0, num_iterations |-> 0, time_processed |-> 0 ]

merge_with(a, b) ==
    [ num_produced_rows |-> a.num_produced_rows + b.num_produced_rows,
      num_iterations |-> a.num_iterations + b.num_iterations,
      time_processed |-> a.time_processed + b.time_processed ]

\* ------------------------------------------------------------- ExecSummaryCollector
ExecSummaryCollector(output_index) ==
    [ output_index |-> output_index, counts |-> ExecSummaryDefault ]

\* "start timer": the timer is the clock's reading; reading it takes time.
on_start_iterate(c, env) ==
    [ collector |-> c,
      timer |-> env.clock,
      env |-> Tick(Emit(env, Event("on_start_iterate", c.output_index, 0, env.clock, ""))) ]

\* "stop timer given a produced row count"
on_finish_iterate(c, timer, rows, env) ==
    [ collector |->
        [ c EXCEPT !.counts =
            merge_with(@, [ num_produced_rows |-> rows,
                            num_iterations |-> 1,
                            time_processed |-> env.clock - timer ]) ],
      env |-> Emit(env, Event("on_finish_iterate", c.output_index, rows, timer, "")) ]

\* "flush collected summary into a destination", resetting the counters.
collect_into(c, target, env) ==
    [ collector |-> [ c EXCEPT !.counts = ExecSummaryDefault ],
      target |->
        [ target EXCEPT ![c.output_index] =
            IF @ = None THEN Some(c.counts) ELSE Some(merge_with(@[1], c.counts)) ],
      env |-> Emit(env, Event("collect_into", c.output_index,
                              c.counts.num_produced_rows, 0, "")) ]

\* ------------------------------------------------------------- BatchExecuteStatistics
BatchExecuteStatistics(n) ==
    [ summary_per_executor |-> [ i \in 1..n |-> None ],
      scanned_rows |-> 0 ]

\* ------------------------------------------------------------- leaf executor
LeafExecutor(fields) ==
    [ kind |-> "leaf", id |-> 0, fields |-> fields,
      upcoming |-> BatchExecuteResult(LazyBatchColumnVec(0), << >>, << >>, DrainedOk),
      drained |-> FALSE, pulled_after_drain |-> FALSE, scanned |-> 0 ]

LeafSchema(self) == self.fields

\* The leaf yields what its data source holds next; the hint is advisory.
LeafNextBatch(self, scan_rows, env) ==
    IF self.drained
    THEN [ self |-> [ self EXCEPT !.pulled_after_drain = TRUE ],
           result |-> BatchExecuteResult(LazyBatchColumnVec(0), << >>, << >>, DrainedOk),
           env |-> Tick(env) ]
    ELSE [ self |-> [ self EXCEPT !.drained = (self.upcoming.is_drained # Continue),
                                  !.scanned = @ + self.upcoming.physical_columns.rows_len ],
           result |-> self.upcoming,
           env |-> Tick(env) ]

\* The leaf reports the rows scanned since the last collection and resets.
LeafCollectStatistics(self, destination, env) ==
    [ self |-> [ self EXCEPT !.scanned = 0 ],
      destination |-> [ destination EXCEPT !.scanned_rows = @ + self.scanned ],
      env |-> Emit(env, Event("leaf_collect", self.id, self.scanned, 0, "")) ]

\* ------------------------------------------------------------- BatchExecutor
RECURSIVE schema(_)
RECURSIVE next_batch(_, _, _)
RECURSIVE collect_statistics(_, _, _)

\* WithSummaryCollector { summary_collector, inner }
with_summary_collector(self, summary_collector) ==
    [ kind |-> "wsc", id |-> summary_collector.output_index,
      summary_collector |-> summary_collector, inner |-> self ]

\* Box<T>
Box(id, inner) == [ kind |-> "box", id |-> id, inner |-> inner ]

\* impl BatchExecutor for Box<T>
BoxSchema(self) == schema(self.inner)

\* A handle that asks the held instance for one row more than it was asked.
BoxNextBatchOtherHint(self, scan_rows, env) ==
    LET r == next_batch(self.inner, scan_rows + 1, env)
    IN [ self |-> [ self EXCEPT !.inner = r.self ],
         result |-> r.result,
         env |-> r.env ]

BoxNextBatch(self, scan_rows, env) ==
    LET r == next_batch(self.inner, scan_rows, env)
    IN [ self |-> [ self EXCEPT !.inner = r.self ],
         result |-> r.result,
         env |-> r.env ]

BoxCollectStatistics(self, destination, env) ==
    LET r == collect_statistics(self.inner, destination, env)
    IN [ self |-> [ self EXCEPT !.inner = r.self ],
         destination |-> r.destination,
         env |-> r.env ]

\* impl BatchExecutor for WithSummaryCollector<C, T>
\* A decorator that adds a column for its own measurements to the schema.
WscSchemaExtra(self) == Append(schema(self.inner), "Duration")

WscSchema(self) == schema(self.inner)

\* --- variants of WithSummaryCollector::next_batch with a defect each ---
\* Truncates the logical rows to the hint.
WscNextBatchClamp(self, scan_rows, env) ==
    LET s == on_start_iterate(self.summary_collector, env)
        result == next_batch(self.inner, scan_rows, s.env)
        f == on_finish_iterate(s.collector, s.timer,
                               Len(result.result.logical_rows), result.env)
        kept == IF Len(result.result.logical_rows) > scan_rows
                THEN SubSeq(result.result.logical_rows, 1, scan_rows)
                ELSE result.result.logical_rows
    IN [ self |-> [ self EXCEPT !.summary_collector = f.collector,
                                !.inner = result.self ],
         result |-> [ result.result EXCEPT !.logical_rows = kept ],
         env |-> f.env ]

\* Reports the hint, not the produced row count, to the collector.
WscNextBatchCountHint(self, scan_rows, env) ==
    LET s == on_start_iterate(self.summary_collector, env)
        result == next_batch(self.inner, scan_rows, s.env)
        f == on_finish_iterate(s.collector, s.timer, scan_rows, result.env)
    IN [ self |-> [ self EXCEPT !.summary_collector = f.collector,
                                !.inner = result.self ],
         result |-> result.result,
         env |-> f.env ]

\* Pulls the inner executor again when a call brought no logical row.
WscNextBatchRetry(self, scan_rows, env) ==
    LET s == on_start_iterate(self.summary_collector, env)
        first == next_batch(self.inner, scan_rows, s.env)
        result == IF first.result.logical_rows = << >>
                  THEN next_batch(first.self, scan_rows, first.env)
                  ELSE first
        f == on_finish_iterate(s.collector, s.timer,
                               Len(result.result.logical_rows), result.env)
    IN [ self |-> [ self EXCEPT !.summary_collector = f.collector,
                                !.inner = result.self ],
         result |-> result.result,
         env |-> f.env ]

\* Takes a call without logical rows for the end of the data.
WscNextBatchEmptyDrains(self, scan_rows, env) ==
    LET s == on_start_iterate(self.summary_collector, env)
        result == next_batch(self.inner, scan_rows, s.env)
        f == on_finish_iterate(s.collector, s.timer,
                               Len(result.result.logical_rows), result.env)
    IN [ self |-> [ self EXCEPT !.summary_collector = f.collector,
                                !.inner = result.self ],
         result |-> IF result.result.logical_rows = << >>
                       /\ result.result.is_drained = Continue
                    THEN [ result.result EXCEPT !.is_drained = DrainedOk ]
                    ELSE result.result,
         env |-> f.env ]

\* Moves the physical columns out of the result while counting its rows.
WscNextBatchDropColumns(self, scan_rows, env) ==
    LET s == on_start_iterate(self.summary_collector, env)
        result == next_batch(self.inner, scan_rows, s.env)
        f == on_finish_iterate(s.collector, s.timer,
                               Len(result.result.logical_rows), result.env)
    IN [ self |-> [ self EXCEPT !.summary_collector = f.collector,
                                !.inner = result.self ],
         result |-> [ result.result EXCEPT !.physical_columns = LazyBatchColumnVec(0) ],
         env |-> f.env ]

\* Starts the timer only after the inner executor has returned.
WscNextBatchLateStart(self, scan_rows, env) ==
    LET result == next_batch(self.inner, scan_rows, env)
        s == on_start_iterate(self.summary_collector, result.env)
        f == on_finish_iterate(s.collector, s.timer,
                               Len(result.result.logical_rows), s.env)
    IN [ self |-> [ self EXCEPT !.summary_collector = f.collector,
                                !.inner = result.self ],
         result |-> result.result,
         env |-> f.env ]

\* Returns an error of the inner executor at once, leaving the timer running.
WscNextBatchSkipOnErr(self, scan_rows, env) ==
    LET s == on_start_iterate(self.summary_collector, env)
        result == next_batch(self.inner, scan_rows, s.env)
        f == on_finish_iterate(s.collector, s.timer,
                               Len(result.result.logical_rows), result.env)
    IN IF result.result.is_drained = DrainedErr
       THEN [ self |-> [ self EXCEPT !.summary_collector = s.collector,
                                     !.inner = result.self ],
              result |-> result.result,
              env |-> result.env ]
       ELSE [ self |-> [ self EXCEPT !.summary_collector = f.collector,
                                     !.inner = result.self ],
              result |-> result.result,
              env |-> f.env ]

\* Stops the timer before it delegates, with the hint as row count.
WscNextBatchEagerFinish(self, scan_rows, env) ==
    LET s == on_start_iterate(self.summary_collector, env)
        f == on_finish_iterate(s.collector, s.timer, scan_rows, s.env)
        result == next_batch(self.inner, scan_rows, f.env)
    IN [ self |-> [ self EXCEPT !.summary_collector = f.collector,
                                !.inner = result.self ],
         result |-> result.result,
         env |-> result.env ]

WscNextBatch(self, scan_rows, env) ==
    LET s == on_start_iterate(self.summary_collector, env)
        result == next_batch(self.inner, scan_rows, s.env)
        f == on_finish_iterate(s.collector, s.timer,
                               Len(result.result.logical_rows), result.env)
    IN [ self |-> [ self EXCEPT !.summary_collector = f.collector,
                                !.inner = result.self ],
         result |-> result.result,
         env |-> f.env ]

\* --- variants of WithSummaryCollector::collect_statistics with a defect each ---
\* Flushes a copy of the collector: the decorator's own counters stay.
WscCollectStatisticsCopy(self, destination, env) ==
    LET i == collect_statistics(self.inner, destination, env)
        c == collect_into(self.summary_collector,
                          i.destination.summary_per_executor, i.env)
    IN [ self |-> [ self EXCEPT !.inner = i.self ],
         destination |-> [ i.destination EXCEPT !.summary_per_executor = c.target ],
         env |-> c.env ]

\* Flushes its own summary before it delegates to the inner executor.
WscCollectStatisticsOwnFirst(self, destination, env) ==
    LET c == collect_into(self.summary_collector,
                          destination.summary_per_executor, env)
        i == collect_statistics(self.inner,
                                [ destination EXCEPT !.summary_per_executor = c.target ],
                                c.env)
    IN [ self |-> [ self EXCEPT !.summary_collector = c.collector,
                                !.inner = i.self ],
         destination |-> i.destination,
         env |-> i.env ]

\* Resets the collector but flushes into a temporary, not the destination.
WscCollectStatisticsNoFlush(self, destination, env) ==
    LET i == collect_statistics(self.inner, destination, env)
        c == collect_into(self.summary_collector,
                          i.destination.summary_per_executor, i.env)
    IN [ self |-> [ self EXCEPT !.summary_collector = c.collector,
                                !.inner = i.self ],
         destination |-> i.destination,
         env |-> c.env ]

\* Replaces the destination's summaries by its own instead of adding to them.
WscCollectStatisticsOverwrite(self, destination, env) ==
    LET i == collect_statistics(self.inner, destination, env)
        c == collect_into(self.summary_collector,
                          [ k \in DOMAIN i.destination.summary_per_executor |-> None ],
                          i.env)
    IN [ self |-> [ self EXCEPT !.summary_collector = c.collector,
                                !.inner = i.self ],
         destination |-> [ i.destination EXCEPT !.summary_per_executor = c.target ],
         env |-> c.env ]

WscCollectStatistics(self, destination, env) ==
    LET i == collect_statistics(self.inner, destination, env)
        c == collect_into(self.summary_collector,
                          i.destination.summary_per_executor, i.env)
    IN [ self |-> [ self EXCEPT !.summary_collector = c.collector,
                                !.inner = i.self ],
         destination |-> [ i.destination EXCEPT !.summary_per_executor = c.target ],
         env |-> c.env ]

\* Trait dispatch.
schema(op) ==
    CASE op.kind = "leaf" -> LeafSchema(op)
      [] op.kind = "box" -> BoxSchema(op)
      [] op.kind = "wsc" -> WscSchema(op)

next_batch(op, scan_rows, env) ==
    LET e == Emit(env, Event("next_batch", op.id, scan_rows, 0, ""))
        r == CASE op.kind = "leaf" -> LeafNextBatch(op, scan_rows, e)
               [] op.kind = "box" -> BoxNextBatch(op, scan_rows, e)
               [] op.kind = "wsc" -> WscNextBatch(op, scan_rows, e)
    IN [ r EXCEPT !.env = Emit(@, Event("return", op.id,
                                        Len(r.result.logical_rows), 0,
                                        r.result.is_drained)) ]

collect_statistics(op, destination, env) ==
    LET e == Emit(env, Event("collect_statistics", op.id, 0, 0, ""))
    IN CASE op.kind = "leaf" -> LeafCollectStatistics(op, destination, e)
         [] op.kind = "box" -> BoxCollectStatistics(op, destination, e)
         [] op.kind = "wsc" -> WscCollectStatistics(op, destination, e)

\* ------------------------------------------------------------- trees
Shapes == UNION { [1..n -> {"box", "wsc"}] : n \in 0..MaxDepth }

\* The tree whose k-th layer above the leaf is shape[k].
RECURSIVE Build(_, _)
Build(shape, leaf) ==
    IF shape = << >> THEN leaf
    ELSE LET n == Len(shape)
             inner == Build(SubSeq(shape, 1, n - 1), leaf)
         IN IF shape[n] = "box" THEN Box(n, inner)
            ELSE with_summary_collector(inner, ExecSummaryCollector(n))

\* The data source hands the leaf what it yields on the next pull.
RECURSIVE Feed(_, _)
Feed(op, r) ==
    IF op.kind = "leaf" THEN [ op EXCEPT !.upcoming = r ]
    ELSE [ op EXCEPT !.inner = Feed(op.inner, r) ]

RECURSIVE Leaf(_)
Leaf(op) == IF op.kind = "leaf" THEN op ELSE Leaf(op.inner)

RECURSIVE Depth(_)
Depth(op) == IF op.kind = "leaf" THEN 0 ELSE 1 + Depth(op.inner)

\* The tree with its Box handles removed: the held instances themselves.
RECURSIVE Unbox(_)
Unbox(op) ==
    CASE op.kind = "leaf" -> op
      [] op.kind = "box" -> Unbox(op.inner)
      [] op.kind = "wsc" -> [ op EXCEPT !.inner = Unbox(op.inner) ]

\* The decorators of a tree, outermost first.
RECURSIVE Decorators(_)
Decorators(op) ==
    CASE op.kind = "leaf" -> << >>
      [] op.kind = "box" -> Decorators(op.inner)
      [] op.kind = "wsc" -> << op >> \o Decorators(op.inner)

\* ------------------------------------------------------------- state
VARIABLES
    root,         \* the executor tree the driver holds
    dest,         \* the driver's BatchExecuteStatistics
    clock,        \* monotonic clock
    direct,       \* the bare leaf executor, pulled directly with the same hints
    unboxed,      \* the same tree without Box handles, given the same calls
    destU,        \* the statistics collected from `unboxed`
    lastResult,   \* Option of the result of the driver's last next_batch
    lastDirect,   \* Option of the result of the same call on `direct`
    lastUnboxed,  \* Option of the result of the same call on `unboxed`
    lastSchema,   \* Option of what the last schema() returned
    lastSchemaU,  \* Option of what the same call on `unboxed` returned
    trace,        \* events of the driver's last call
    lastOp,       \* the driver's last call
    lastHint,     \* the hint of the driver's last next_batch
    signals,      \* completion signals the driver has seen, in order
    pulls,        \* next_batch calls so far
    collects,     \* collect_statistics calls so far
    rowsReturned, \* logical rows returned to the driver so far
    sincePulls,   \* next_batch calls since the last collect_statistics
    gap,          \* next_batch calls between the last two collect_statistics
    prevDest,     \* dest before the last collect_statistics
    owner,        \* the worker thread that owns the tree
    running,      \* the calls in progress on the tree: [thread, op, scan_rows]
    lastThread    \* the thread whose call returned last

vars == << root, dest, clock, direct, unboxed, destU, lastResult, lastDirect,
           lastUnboxed, lastSchema, lastSchemaU, trace, lastOp, lastHint,
           signals, pulls, collects, rowsReturned, sincePulls, gap, prevDest,
           owner, running, lastThread >>

\* Worker threads.
Threads == { "w1", "w2" }

Init ==
    \E shape \in Shapes, fields \in Schemas :
        /\ root = Build(shape, LeafExecutor(fields))
        /\ dest = BatchExecuteStatistics(Len(shape))
        /\ clock = 0
        /\ direct = LeafExecutor(fields)
        /\ unboxed = Unbox(Build(shape, LeafExecutor(fields)))
        /\ destU = BatchExecuteStatistics(Len(shape))
        /\ lastResult = None
        /\ lastDirect = None
        /\ lastUnboxed = None
        /\ lastSchema = None
        /\ lastSchemaU = None
        /\ trace = << >>
        /\ lastOp = "new"
        /\ lastHint = 0
        /\ signals = << >>
        /\ pulls = 0
        /\ collects = 0
        /\ rowsReturned = 0
        /\ sincePulls = 0
        /\ gap = 0
        /\ prevDest = BatchExecuteStatistics(Len(shape))
        /\ owner = "w1"
        /\ running = { }
        /\ lastThread = ""

\* The driver has seen a terminal signal.
Drained == signals # << >> /\ signals[Len(signals)] # Continue

\* The variables of the tree without Box handles.
unboxedVars == << unboxed, destU, lastUnboxed, lastSchemaU >>

\* Which thread owns the tree and which calls are in progress.
threadVars == << owner, running, lastThread >>

\* The driver pulls the root; it stops at the first terminal signal.  The data
\* source yields r; the bare leaf is pulled directly with the same hint.
PullRoot(scan_rows, r) ==
    /\ ~Drained
    /\ pulls < MaxPulls
    /\ LET out == next_batch(Feed(root, r), scan_rows, Env(clock))
           outD == next_batch(Feed(direct, r), scan_rows, Env(clock))
       IN /\ root' = out.self
          /\ lastResult' = Some(out.result)
          /\ trace' = out.env.log
          /\ clock' = out.env.clock
          /\ direct' = outD.self
          /\ lastDirect' = Some(outD.result)
          /\ signals' = Append(signals, out.result.is_drained)
          /\ rowsReturned' = rowsReturned + Len(out.result.logical_rows)
    /\ lastOp' = "next_batch"
    /\ lastHint' = scan_rows
    /\ pulls' = pulls + 1
    /\ sincePulls' = sincePulls + 1
    /\ UNCHANGED << dest, lastSchema, collects, gap, prevDest >>

\* The driver asks the root for its statistics.
CollectRoot ==
    /\ collects < MaxCollects
    /\ LET out == collect_statistics(root, dest, Env(clock))
       IN /\ root' = out.self
          /\ dest' = out.destination
          /\ trace' = out.env.log
          /\ clock' = out.env.clock
    /\ prevDest' = dest
    /\ lastOp' = "collect_statistics"
    /\ collects' = collects + 1
    /\ gap' = sincePulls
    /\ sincePulls' = 0
    /\ UNCHANGED << direct, lastResult, lastDirect, lastSchema, lastHint,
                    signals, pulls, rowsReturned >>

\* The driver asks the root for its schema.
SchemaRoot ==
    /\ lastSchema' = Some(schema(root))
    /\ UNCHANGED << root, dest, clock, direct, lastResult, lastDirect, trace,
                    lastOp, lastHint, signals, pulls, collects, rowsReturned,
                    sincePulls, gap, prevDest >>

NextBatch(scan_rows, r) ==
    PullRoot(scan_rows, r) /\ UNCHANGED << unboxedVars, threadVars >>

CollectStatistics == CollectRoot /\ UNCHANGED << unboxedVars, threadVars >>

Schema == SchemaRoot /\ UNCHANGED << unboxedVars, threadVars >>

Next ==
    \/ \E scan_rows \in Hints, r \in LeafResults : NextBatch(scan_rows, r)
    \/ CollectStatistics
    \/ Schema

Spec == Init /\ [][Next]_vars

\* The same driver, which also makes each call directly on the held instances:
\* on the tree without its Box handles.
HasBox(op) == Unbox(op) # op

NextBatchBoxed(scan_rows, r) ==
    /\ PullRoot(scan_rows, r)
    /\ LET outU == next_batch(Feed(unboxed, r), scan_rows, Env(clock))
       IN /\ unboxed' = outU.self
          /\ lastUnboxed' = Some(outU.result)
    /\ UNCHANGED << destU, lastSchemaU, threadVars >>

CollectStatisticsBoxed ==
    /\ CollectRoot
    /\ LET outU == collect_statistics(unboxed, destU, Env(clock))
       IN /\ unboxed' = outU.self
          /\ destU' = outU.destination
    /\ UNCHANGED << lastUnboxed, lastSchemaU, threadVars >>

SchemaBoxed ==
    /\ SchemaRoot
    /\ lastSchemaU' = Some(schema(unboxed))
    /\ UNCHANGED << unboxed, destU, lastUnboxed, threadVars >>

InitBox == Init /\ HasBox(root)

NextBox ==
    \/ \E scan_rows \in Hints, r \in LeafResults : NextBatchBoxed(scan_rows, r)
    \/ CollectStatisticsBoxed
    \/ SchemaBoxed

SpecBox == InitBox /\ [][NextBox]_vars

\* Worker threads drive the tree.  The trait is `Send` and not `Sync`, and
\* next_batch and collect_statistics take `&mut self`: a thread can call only
\* the tree it owns, only while no other call holds it, and the tree can move
\* to another thread only between calls.  A call begins, runs, and returns.
\* A tree shared between threads, as a `Sync` trait with `&self` methods
\* would allow.
CanCallShared(t) == t \in Threads

CanCall(t) == owner = t /\ running = { }

BeginNextBatch(t, scan_rows) ==
    /\ CanCall(t)
    /\ ~Drained
    /\ pulls < MaxPulls
    /\ running' = running \cup { [ thread |-> t, op |-> "next_batch", scan_rows |-> scan_rows ] }
    /\ UNCHANGED << root, dest, clock, direct, lastResult, lastDirect, lastSchema,
                    trace, lastOp, lastHint, signals, pulls, collects,
                    rowsReturned, sincePulls, gap, prevDest, owner, lastThread,
                    unboxedVars >>

EndNextBatch(r) ==
    \E c \in running :
        /\ c.op = "next_batch"
        /\ PullRoot(c.scan_rows, r)
        /\ running' = running \ { c }
        /\ lastThread' = c.thread
        /\ UNCHANGED << owner, unboxedVars >>

BeginCollectStatistics(t) ==
    /\ CanCall(t)
    /\ collects < MaxCollects
    /\ running' = running \cup { [ thread |-> t, op |-> "collect_statistics", scan_rows |-> 0 ] }
    /\ UNCHANGED << root, dest, clock, direct, lastResult, lastDirect, lastSchema,
                    trace, lastOp, lastHint, signals, pulls, collects,
                    rowsReturned, sincePulls, gap, prevDest, owner, lastThread,
                    unboxedVars >>

EndCollectStatistics ==
    \E c \in running :
        /\ c.op = "collect_statistics"
        /\ CollectRoot
        /\ running' = running \ { c }
        /\ lastThread' = c.thread
        /\ UNCHANGED << owner, unboxedVars >>

\* The tree is handed to another worker.
HandOff(t) ==
    /\ running = { }
    /\ t # owner
    /\ owner' = t
    /\ UNCHANGED << root, dest, clock, direct, lastResult, lastDirect, lastSchema,
                    trace, lastOp, lastHint, signals, pulls, collects,
                    rowsReturned, sincePulls, gap, prevDest, running, lastThread,
                    unboxedVars >>

\* Trees of full depth with a decorator, over one schema.
InitThreads ==
    /\ Init
    /\ Depth(root) = MaxDepth
    /\ Decorators(root) # << >>
    /\ LeafSchema(Leaf(root)) = << "Int", "Bytes" >>

NextThreads ==
    \/ \E t \in Threads, scan_rows \in Hints : BeginNextBatch(t, scan_rows)
    \/ \E r \in LeafResults : EndNextBatch(r)
    \/ \E t \in Threads : BeginCollectStatistics(t)
    \/ EndCollectStatistics
    \/ \E t \in Threads : HandOff(t)

SpecThreads == InitThreads /\ [][NextThreads]_vars

\* ------------------------------------------------------------- claims
HasDecorator == Decorators(root) # << >>

\* C1: the k-th result the driver gets from the tree equals, in physical
\* columns, logical rows, warnings and completion signal, the k-th result of
\* the bare executor pulled directly with the same hints.
C1_WrappedResultEqualsDirect == lastResult = lastDirect

C1_Witness ==
    /\ HasDecorator
    /\ pulls = 2
    /\ lastResult # None
    /\ Len(lastResult[1].logical_rows) > lastHint
    /\ lastResult[1].warnings # << >>
    /\ lastResult = lastDirect

\* Some(s) entries of the aggregator's summary_per_executor.
SummaryEntries(d) ==
    { i \in DOMAIN d.summary_per_executor : d.summary_per_executor[i] # None }

\* C2: after n >= 1 pulls followed by one collect_statistics, the aggregator
\* holds exactly one summary entry per decorator, with the sum of the logical
\* rows of the n calls as row count (and n iterations).
C2_SummaryAfterPulls ==
    (lastOp = "collect_statistics" /\ collects = 1 /\ pulls >= 1) =>
        /\ Cardinality(SummaryEntries(dest)) = Len(Decorators(root))
        /\ \A k \in 1..Len(Decorators(root)) :
              LET d == Decorators(root)[k]
                  e == dest.summary_per_executor[d.summary_collector.output_index]
              IN /\ e # None
                 /\ e[1].num_produced_rows = rowsReturned
                 /\ e[1].num_iterations = pulls

C2_Witness ==
    /\ lastOp = "collect_statistics" /\ collects = 1 /\ pulls = 2
    /\ Len(Decorators(root)) = 1
    /\ Depth(root) = 1
    /\ rowsReturned = 3
    /\ dest.summary_per_executor[1] # None
    /\ dest.summary_per_executor[1][1].num_produced_rows = 3

\* C3: a collect_statistics that follows another with no next_batch in
\* between adds nothing to the destination.
C3_SecondCollectAddsNothing ==
    (lastOp = "collect_statistics" /\ collects >= 2 /\ gap = 0) =>
        dest = prevDest

C3_Witness ==
    /\ lastOp = "collect_statistics" /\ collects = 2 /\ gap = 0
    /\ HasDecorator
    /\ pulls = 2 /\ rowsReturned > 0
    /\ dest = prevDest
    /\ dest.scanned_rows > 0
    /\ \E i \in SummaryEntries(dest) :
          dest.summary_per_executor[i][1].num_produced_rows = rowsReturned

\* Calls of operation ev on executor id in the last call's log.
Calls(ev, id) == { i \in 1..Len(trace) : trace[i].ev = ev /\ trace[i].id = id }

\* C4: no executor is pulled after its terminal result: every pull of the
\* root pulls every executor below it exactly once, the leaf is never pulled
\* once drained, and the driver sees Continue signals followed by at most one
\* terminal signal.
C4_NoPullAfterDrain ==
    /\ ~Leaf(root).pulled_after_drain
    /\ \A i \in 1..Len(signals) : i < Len(signals) => signals[i] = Continue
    /\ Leaf(root).drained = Drained
    /\ lastOp = "next_batch" =>
          \A id \in 0..Depth(root) : Cardinality(Calls("next_batch", id)) = 1

C4_Witness ==
    /\ HasDecorator /\ Depth(root) = 2
    /\ Len(signals) = 2 /\ signals[1] = Continue /\ signals[2] = DrainedErr
    /\ lastOp = "next_batch"
    /\ lastResult[1].logical_rows = << >>
    /\ Leaf(root).drained

\* C5: a Continue result without logical rows is delivered as Continue and
\* does not end the execution: the driver is done exactly when the completion
\* signal of the last result is terminal, whatever the row counts.
C5_EmptyContinueIsNotCompletion ==
    lastResult # None =>
        /\ Drained <=> lastResult[1].is_drained # Continue
        /\ (lastDirect[1].is_drained = Continue /\ lastDirect[1].logical_rows = << >>)
              => (lastResult[1].is_drained = Continue /\ ~Drained /\ ~Leaf(root).drained)

C5_Witness ==
    /\ HasDecorator /\ Depth(root) = 2 /\ root.kind = "box"
    /\ lastResult # None
    /\ lastResult[1].is_drained = Continue
    /\ lastResult[1].logical_rows = << >>
    /\ lastResult[1].physical_columns.rows_len > 0
    /\ ~Drained
    /\ pulls = 1

\* The executors of a tree, outermost first.
RECURSIVE Nodes(_)
Nodes(op) == IF op.kind = "leaf" THEN << op >> ELSE << op >> \o Nodes(op.inner)

\* The position in the log of the only event ev of executor id.
Pos(ev, id) == CHOOSE i \in Calls(ev, id) : TRUE

\* C6: a Box handle delegates and adds nothing: the tree returns the same
\* values, and leaves the held instances and the destination in the same state,
\* as the same calls made on the tree without its Box handles; each call of a
\* handle makes exactly one call of the same kind with the same argument on the
\* held instance and returns what that call returns.
C6_BoxDelegates ==
    /\ Unbox(root) = unboxed
    /\ dest = destU
    /\ lastResult = lastUnboxed
    /\ lastSchema = lastSchemaU
    /\ \A k \in 1..Depth(root) :
          LET b == Nodes(root)[k]
          IN (b.kind = "box" /\ lastOp # "new") =>
                /\ Cardinality(Calls(lastOp, b.id)) = 1
                /\ Cardinality(Calls(lastOp, b.inner.id)) = 1
                /\ Pos(lastOp, b.inner.id) = Pos(lastOp, b.id) + 1
                /\ trace[Pos(lastOp, b.inner.id)].n = trace[Pos(lastOp, b.id)].n
                /\ lastOp = "next_batch" =>
                      /\ Cardinality(Calls("return", b.id)) = 1
                      /\ Cardinality(Calls("return", b.inner.id)) = 1
                      /\ Pos("return", b.id) = Pos("return", b.inner.id) + 1
                      /\ trace[Pos("return", b.id)].n = trace[Pos("return", b.inner.id)].n
                      /\ trace[Pos("return", b.id)].sig = trace[Pos("return", b.inner.id)].sig

C6_Witness ==
    /\ root.kind = "box" /\ root.inner.kind = "wsc"
    /\ pulls = 2 /\ collects = 1 /\ lastOp = "collect_statistics"
    /\ lastSchema # None
    /\ rowsReturned > 0
    /\ dest.summary_per_executor[1] # None
    /\ dest = destU
    /\ Unbox(root) = unboxed

\* The output indexes of the summaries flushed in the last call, in order.
Flushed == SelectSeq(trace, LAMBDA e : e.ev = "collect_into")

\* C7: on a collect_statistics of the outermost executor every decorator
\* flushes exactly one summary, innermost decorator first, and the aggregator
\* then holds exactly one entry per decorator.
C7_NestedCollectDepthFirst ==
    lastOp = "collect_statistics" =>
        LET ds == Decorators(root)
        IN /\ Len(Flushed) = Len(ds)
           /\ \A k \in 1..Len(ds) :
                 Flushed[k].id = ds[Len(ds) + 1 - k].summary_collector.output_index
           /\ SummaryEntries(dest) =
                 { ds[k].summary_collector.output_index : k \in 1..Len(ds) }
           /\ Cardinality(SummaryEntries(dest)) = Len(ds)

C7_Witness ==
    /\ lastOp = "collect_statistics"
    /\ Len(Decorators(root)) = 2
    /\ pulls >= 1
    /\ Len(Flushed) = 2
    /\ Flushed[1].id = 1 /\ Flushed[2].id = 2
    /\ Flushed[1].n > 0

\* C8: schema() returns the leaf's schema through every decorator and handle,
\* the same on every call whatever calls come between, and a schema() call
\* changes neither the tree and its collectors nor the aggregator.
C8_SchemaStable ==
    [][ /\ lastSchema' # None =>
              /\ lastSchema' = Some(LeafSchema(Leaf(root')))
              /\ schema(root') = lastSchema'[1]
        /\ lastSchema # None => lastSchema' = lastSchema
        /\ LeafSchema(Leaf(root')) = LeafSchema(Leaf(root))
        /\ (lastOp' = lastOp /\ pulls' = pulls /\ collects' = collects) =>
              (root' = root /\ dest' = dest /\ clock' = clock) ]_vars

C8_Witness ==
    /\ lastSchema = Some(<< "Int", "Bytes" >>)
    /\ Depth(root) = 2 /\ HasDecorator /\ root.kind = "box"
    /\ pulls = 2 /\ collects = 2
    /\ schema(root) = << "Int", "Bytes" >>

\* C9: in every result that reaches the driver, each logical row is an offset
\* below the physical row count, and no offset occurs twice.
C9_LogicalRowsValid ==
    lastResult # None =>
        LET res == lastResult[1]
        IN /\ \A i \in 1..Len(res.logical_rows) :
                 /\ res.logical_rows[i] >= 0
                 /\ res.logical_rows[i] < res.physical_columns.rows_len
           /\ \A i, j \in 1..Len(res.logical_rows) :
                 i # j => res.logical_rows[i] # res.logical_rows[j]

C9_Witness ==
    /\ HasDecorator /\ root.kind = "box"
    /\ lastResult # None
    /\ Len(lastResult[1].logical_rows) = 2
    /\ lastResult[1].physical_columns.rows_len = 2
    /\ lastResult[1].logical_rows[1] # lastResult[1].logical_rows[2]

\* C10: a next_batch(hint) of a decorator does, once each and in this order:
\* on_start_iterate, next_batch(hint) of the inner executor, on_finish_iterate
\* with the timer of that start and the number of logical rows of the inner
\* result; so every started timer of a returned call is finished.
C10_TimedPullOrder ==
    lastOp = "next_batch" =>
        /\ \A k \in 1..Len(Decorators(root)) :
              LET d == Decorators(root)[k]
                  c == d.summary_collector.output_index
              IN /\ Cardinality(Calls("on_start_iterate", c)) = 1
                 /\ Cardinality(Calls("on_finish_iterate", c)) = 1
                 /\ Cardinality(Calls("next_batch", d.inner.id)) = 1
                 /\ Cardinality(Calls("return", d.inner.id)) = 1
                 /\ Pos("next_batch", d.id) < Pos("on_start_iterate", c)
                 /\ Pos("on_start_iterate", c) < Pos("next_batch", d.inner.id)
                 /\ Pos("return", d.inner.id) < Pos("on_finish_iterate", c)
                 /\ Pos("on_finish_iterate", c) < Pos("return", d.id)
                 /\ trace[Pos("next_batch", d.inner.id)].n = trace[Pos("next_batch", d.id)].n
                 /\ trace[Pos("next_batch", d.id)].n = lastHint
                 /\ trace[Pos("on_finish_iterate", c)].t = trace[Pos("on_start_iterate", c)].t
                 /\ trace[Pos("on_finish_iterate", c)].n = trace[Pos("return", d.inner.id)].n
                 /\ trace[Pos("on_finish_iterate", c)].n = Len(lastResult[1].logical_rows)
        /\ Cardinality({ i \in 1..Len(trace) : trace[i].ev = "on_start_iterate" })
             = Cardinality({ i \in 1..Len(trace) : trace[i].ev = "on_finish_iterate" })

C10_Witness ==
    /\ lastOp = "next_batch" /\ pulls = 2
    /\ Len(Decorators(root)) = 2
    /\ Len(lastResult[1].logical_rows) > lastHint
    /\ trace[Pos("on_finish_iterate", 2)].n = 2
    /\ trace[Pos("on_finish_iterate", 2)].t > 0
    /\ trace[Pos("on_finish_iterate", 1)].t > trace[Pos("on_finish_iterate", 2)].t

\* Rows a decorator has counted and not flushed yet.
PendingRows(d) == d.summary_collector.counts.num_produced_rows

\* Rows the aggregator holds for a decorator.
FlushedRows(st, d) ==
    LET e == st.summary_per_executor[d.summary_collector.output_index]
    IN IF e = None THEN 0 ELSE e[1].num_produced_rows

\* C11: when the inner executor ends (Ok(true) or Err) on a call that carries
\* k logical rows, every decorator returns these rows and the same signal,
\* stops its timer with the count k, and a collect_statistics that follows
\* reports all rows returned, those of the terminal call included.
C11_TerminalRowsCounted ==
    /\ (lastOp = "next_batch" /\ lastDirect[1].is_drained # Continue) =>
          /\ lastResult[1].logical_rows = lastDirect[1].logical_rows
          /\ lastResult[1].is_drained = lastDirect[1].is_drained
          /\ \A k \in 1..Len(Decorators(root)) :
                LET d == Decorators(root)[k]
                    c == d.summary_collector.output_index
                IN /\ Cardinality(Calls("on_finish_iterate", c)) = 1
                   /\ trace[Pos("on_finish_iterate", c)].n
                        = Len(lastDirect[1].logical_rows)
                   /\ PendingRows(d) >= Len(lastDirect[1].logical_rows)
    /\ (lastOp = "collect_statistics" /\ Drained) =>
          \A k \in 1..Len(Decorators(root)) :
              FlushedRows(dest, Decorators(root)[k]) = rowsReturned

C11_Witness ==
    /\ lastOp = "collect_statistics" /\ collects = 1
    /\ Len(signals) = 2 /\ signals[2] = DrainedErr
    /\ Len(lastResult[1].logical_rows) = 1
    /\ rowsReturned = 1
    /\ Len(Decorators(root)) = 2
    /\ FlushedRows(dest, Decorators(root)[1]) = 1
    /\ FlushedRows(dest, Decorators(root)[2]) = 1

\* Iterations a decorator has counted and not flushed, and those flushed.
PendingIterations(d) == d.summary_collector.counts.num_iterations

FlushedIterations(st, d) ==
    LET e == st.summary_per_executor[d.summary_collector.output_index]
    IN IF e = None THEN 0 ELSE e[1].num_iterations

\* C12: whatever the interleaving of next_batch and collect_statistics, for
\* every decorator the rows flushed so far plus the rows still pending equal
\* the logical rows returned so far (and likewise the iterations and the
\* calls): nothing is lost, nothing reported twice.
C12_FlushedPlusPendingIsTotal ==
    \A k \in 1..Len(Decorators(root)) :
        LET d == Decorators(root)[k]
        IN /\ FlushedRows(dest, d) + PendingRows(d) = rowsReturned
           /\ FlushedIterations(dest, d) + PendingIterations(d) = pulls

C12_Witness ==
    /\ Len(Decorators(root)) = 2
    /\ pulls = 2 /\ collects = 1 /\ lastOp = "next_batch"
    /\ ~Drained
    /\ FlushedRows(dest, Decorators(root)[1]) = 1
    /\ PendingRows(Decorators(root)[1]) = 2
    /\ rowsReturned = 3

\* What a collect_statistics call may log.
CollectEvents == { "collect_statistics", "collect_into", "leaf_collect" }

\* C13: a next_batch leaves the aggregator as it is; a collect_statistics
\* pulls nothing and touches no timer, and only adds to the destination: what
\* the leaf and the inner decorators contribute stays, and each decorator adds
\* its pending summary to its own entry after the inner executor has reported.
C13_PullsAndCollectionDecoupled ==
    [][ /\ pulls' # pulls => (dest' = dest /\ collects' = collects)
        /\ collects' # collects =>
              /\ pulls' = pulls
              /\ \A i \in 1..Len(trace') : trace'[i].ev \in CollectEvents
              /\ clock' = clock
              /\ lastResult' = lastResult
              /\ Leaf(root').drained = Leaf(root).drained
              /\ Leaf(root').pulled_after_drain = Leaf(root).pulled_after_drain
              /\ dest'.scanned_rows = dest.scanned_rows + Leaf(root).scanned
              /\ \A k \in 1..Len(Decorators(root)) :
                    LET d == Decorators(root)[k]
                        c == d.summary_collector.output_index
                    IN /\ dest'.summary_per_executor[c] # None
                       /\ FlushedRows(dest', d) = FlushedRows(dest, d) + PendingRows(d)
                       /\ FlushedIterations(dest', d)
                            = FlushedIterations(dest, d) + PendingIterations(d)
                       /\ \E i, j \in 1..Len(trace') :
                             /\ i < j
                             /\ trace'[i].ev = "collect_statistics"
                             /\ trace'[i].id = d.inner.id
                             /\ trace'[j].ev = "collect_into"
                             /\ trace'[j].id = c
              /\ \A i \in DOMAIN dest.summary_per_executor :
                    dest.summary_per_executor[i] # None =>
                        dest'.summary_per_executor[i] # None ]_vars

C13_Witness ==
    /\ lastOp = "collect_statistics" /\ collects = 2 /\ gap = 1 /\ pulls = 2
    /\ Len(Decorators(root)) = 2
    /\ prevDest.summary_per_executor[1] # None
    /\ FlushedRows(dest, Decorators(root)[2]) > FlushedRows(prevDest, Decorators(root)[2])
    /\ FlushedRows(dest, Decorators(root)[1]) > FlushedRows(prevDest, Decorators(root)[1])
    /\ dest.scanned_rows > prevDest.scanned_rows
    /\ prevDest.scanned_rows > 0

\* C14: in one pull through nested decorators the timed intervals nest: an
\* outer decorator starts its timer before every decorator inside it, the inner
\* one finishes before the outer one, and both finish with the same row count.
C14_TimedIntervalsNest ==
    lastOp = "next_batch" =>
        \A k1, k2 \in 1..Len(Decorators(root)) :
            k1 < k2 =>
                LET outer == Decorators(root)[k1].summary_collector.output_index
                    inner == Decorators(root)[k2].summary_collector.output_index
                IN /\ Cardinality(Calls("on_start_iterate", outer)) = 1
                   /\ Cardinality(Calls("on_start_iterate", inner)) = 1
                   /\ Cardinality(Calls("on_finish_iterate", outer)) = 1
                   /\ Cardinality(Calls("on_finish_iterate", inner)) = 1
                   /\ Pos("on_start_iterate", outer) < Pos("on_start_iterate", inner)
                   /\ Pos("on_start_iterate", inner) < Pos("on_finish_iterate", inner)
                   /\ Pos("on_finish_iterate", inner) < Pos("on_finish_iterate", outer)
                   /\ trace[Pos("on_finish_iterate", inner)].n
                        = trace[Pos("on_finish_iterate", outer)].n
                   /\ trace[Pos("on_start_iterate", outer)].t
                        < trace[Pos("on_start_iterate", inner)].t

C14_Witness ==
    /\ lastOp = "next_batch" /\ pulls = 2
    /\ Len(Decorators(root)) = 2
    /\ Pos("on_start_iterate", 2) < Pos("on_start_iterate", 1)
    /\ Pos("on_finish_iterate", 1) < Pos("on_finish_iterate", 2)
    /\ trace[Pos("on_finish_iterate", 1)].n = 1
    /\ trace[Pos("on_finish_iterate", 2)].n = 1
    /\ lastHint = 0

\* C15: the tree may move between worker threads, between calls only: at most
\* one next_batch or collect_statistics is in progress at any moment, made by
\* the thread that owns the tree; a call in progress returns before anything
\* else happens to the tree; a hand-off changes neither the tree nor the
\* aggregator, so the results of later pulls still equal those of the bare
\* executor and the statistics still add up to the rows returned.
C15_StateOk ==
    /\ Cardinality(running) <= 1
    /\ \A c \in running : c.thread = owner
    /\ lastResult = lastDirect
    /\ \A k \in 1..Len(Decorators(root)) :
          FlushedRows(dest, Decorators(root)[k]) + PendingRows(Decorators(root)[k])
            = rowsReturned

C15_StepOk ==
    /\ running # { } => (running' = { } /\ owner' = owner)
    /\ owner' # owner =>
          /\ running = { } /\ running' = { }
          /\ root' = root /\ dest' = dest /\ clock' = clock
          /\ lastResult' = lastResult /\ signals' = signals
    /\ (pulls' # pulls \/ collects' # collects) =>
          (Cardinality(running) = 1 /\ lastThread' = owner)

C15_ExclusiveAcrossHandOff == [] C15_StateOk /\ [][C15_StepOk]_vars

C15_Witness ==
    /\ owner = "w1" /\ lastThread = "w2"
    /\ running = { [ thread |-> "w1", op |-> "collect_statistics", scan_rows |-> 0 ] }
    /\ pulls = 2 /\ collects = 1
    /\ rowsReturned = 3
    /\ lastOp = "next_batch"
    /\ FlushedRows(dest, Decorators(root)[1]) = 1
    /\ PendingRows(Decorators(root)[1]) = 2

====
